---- MODULE Spec2Model ----
(***************************************************************************)
(* The Ruler component of src/data/video.ts: a canvas time ruler that is   *)
(* resized and redrawn from React effects, and a drag-to-seek gesture      *)
(* whose document-level listeners are installed by an effect keyed on      *)
(* isDragging.                                                             *)
(*                                                                         *)
(* React is modelled as it schedules this component under a concurrent     *)
(* root: a render takes a snapshot of props and state (the closure every   *)
(* handler and effect of that render reads), an effect runs when its       *)
(* dependencies differ from those of the previous render, a render caused  *)
(* by a discrete event (mousedown, mouseup) commits and flushes its        *)
(* passive effects within the event's task, and a render caused by the     *)
(* parent (scroll, scale, callback) may leave its passive effects pending  *)
(* until a later task.                                                     *)
(***************************************************************************)
EXTENDS Integers, Sequences, FiniteSets, TLC

\* ------------------------------------------------------------------ bounds
MaxScroll == 1
MaxRel == 1
\* Inputs of draw taken on its own (DrawSpec).
MaxDrawScroll == 4
MaxDrawWidth == 6
MaxZoom == 2
MaxUnit == 2
MaxSegments == 3
MaxOffsetX == 3
MaxWidth == 4

\* --------------------------------------------------------------- constants
\* ../constants/constants is not part of the sources at hand: the three
\* imported numbers are scaled-down stand-ins.
PREVIEW_FRAME_WIDTH == 2
TIMELINE_OFFSET_X == 1
TIMELINE_OFFSET_CANVAS_LEFT == 1

DefaultHeight == 40
longLineSize == 8
shortLineSize == 6
origin == 32

null == "null"
Callbacks == {"onClickA", "onClickB"}
Heights == {DefaultHeight, DefaultHeight + 4}
OffsetXs == {TIMELINE_OFFSET_X + TIMELINE_OFFSET_CANVAS_LEFT,
             TIMELINE_OFFSET_X + TIMELINE_OFFSET_CANVAS_LEFT + 1}
Scales == {[zoom |-> 1, unit |-> 1, segments |-> 2],
           [zoom |-> 2, unit |-> 1, segments |-> 1]}
Widths == {MaxWidth - 1, MaxWidth}
\* getBoundingClientRect().left of the canvas.
CanvasLeft == 1

\* ------------------------------------------------------ exact arithmetic
\* JavaScript numbers are modelled as exact rationals <<numerator, denominator>>
\* in lowest terms with a positive denominator.
Abs(n) == IF n < 0 THEN -n ELSE n

RECURSIVE Gcd(_, _)
Gcd(a, b) == IF b = 0 THEN a ELSE Gcd(b, a % b)

Rat(n, d) ==
    IF d = 1 THEN <<n, 1>>
    ELSE LET s == IF d < 0 THEN -1 ELSE 1
             g == Gcd(Abs(n), Abs(d))
         IN  <<(s * n) \div g, (s * d) \div g>>

Whole(n) == <<n, 1>>
RAdd(a, b) == Rat(a[1] * b[2] + b[1] * a[2], a[2] * b[2])
RSub(a, b) == Rat(a[1] * b[2] - b[1] * a[2], a[2] * b[2])
RMul(a, b) == Rat(a[1] * b[1], a[2] * b[2])
RDiv(a, b) == Rat(a[1] * b[2], a[2] * b[1])
RLess(a, b) == a[1] * b[2] < b[1] * a[2]
RLeq(a, b) == a[1] * b[2] <= b[1] * a[2]

\* Math.floor and Math.ceil of a rational.
Floor(a) == a[1] \div a[2]
Ceil(a) == -((-a[1]) \div a[2])


\* ------------------------------------------------------------------ draw
zoomUnitOf(scale) == scale.unit * scale.zoom * PREVIEW_FRAME_WIDTH

minRangeOf(scrollPos, zoomUnit) ==
    Floor(RDiv(Whole(scrollPos), Whole(zoomUnit)))

maxRangeOf(scrollPos, width, zoomUnit) ==
    Ceil(RDiv(Whole(scrollPos + width), Whole(zoomUnit)))

\* The tick indices both loops visit: i + minRange for i in 0..length,
\* without the negative ones.
Values(scrollPos, width, zoomUnit) ==
    LET minRange == minRangeOf(scrollPos, zoomUnit)
        maxRange == maxRangeOf(scrollPos, width, zoomUnit)
        length == maxRange - minRange
    IN  {v \in {i + minRange : i \in 0..length} : ~(v < 0)}

\* Label loop: the time value and the position of the label of index value.
labelStartValue(value, scale) ==
    RDiv(Whole(value * zoomUnitOf(scale)), Whole(scale.zoom))

\* Variant: the scroll offset is not brought to the scale of startValue.
labelStartPosUnscaled(value, scale, scrollPos) ==
    RMul(RSub(labelStartValue(value, scale), Whole(scrollPos)),
         Whole(scale.zoom))

labelStartPos(value, scale, scrollPos) ==
    RMul(RSub(labelStartValue(value, scale),
              RDiv(Whole(scrollPos), Whole(scale.zoom))),
         Whole(scale.zoom))

labelSkipped(startPos, width, zoomUnit) ==
    RLess(startPos, Whole(-zoomUnit)) \/ RLeq(Whole(width + zoomUnit), startPos)

\* fillText(text, startPos + textOffsetX + offsetX, ..) with
\* textOffsetX = -textWidth / 2: the label is centred on startPos + offsetX.
label(value, scale, offsetX, scrollPos) ==
    LET startPos == labelStartPos(value, scale, scrollPos)
    IN  [value |-> value,
         text |-> labelStartValue(value, scale),
         startPos |-> startPos,
         centre |-> RAdd(startPos, Whole(offsetX))]

drawLabels(scale, offsetX, scrollPos, width) ==
    LET zoomUnit == zoomUnitOf(scale)
        all == { label(v, scale, offsetX, scrollPos) :
                 v \in Values(scrollPos, width, zoomUnit) }
    IN  { l \in all : ~labelSkipped(l.startPos, width, zoomUnit) }

\* Tick loop.
markPos(value, j, scale, offsetX, scrollPos) ==
    LET zoomUnit == zoomUnitOf(scale)
        startValue == value * zoomUnit
        startPos == startValue - scrollPos + offsetX
    IN  RAdd(Whole(startPos),
             RMul(RDiv(Whole(j), Whole(scale.segments)), Whole(zoomUnit)))

\* Variant: the bounds test joined with "and", which never skips a mark.
markSkippedNever(pos, width) ==
    RLess(pos, Whole(0)) /\ RLeq(Whole(width), pos)

\* Variant: the right edge of the viewport counts as inside.
markSkippedBeyond(pos, width) ==
    RLess(pos, Whole(0)) \/ RLess(Whole(width), pos)

markSkipped(pos, width) ==
    RLess(pos, Whole(0)) \/ RLeq(Whole(width), pos)

\* lineSizes holds the longLineSize and shortLineSize of the render.
markLineSize(j, segments, lineSizes) ==
    IF j % segments # 0 THEN lineSizes.short ELSE lineSizes.long

markColour(lineSize, lineSizes) ==
    IF lineSize = lineSizes.short THEN "#a1a1aa" ELSE "#d4d4d8"

mark(value, j, scale, offsetX, lineSizes, scrollPos) ==
    LET lineSize == markLineSize(j, scale.segments, lineSizes)
    IN  [value |-> value,
         j |-> j,
         pos |-> markPos(value, j, scale, offsetX, scrollPos),
         y1 |-> origin,
         y2 |-> origin + lineSize,
         colour |-> markColour(lineSize, lineSizes)]

drawMarks(scale, offsetX, lineSizes, scrollPos, width) ==
    LET all == { mark(p[1], p[2], scale, offsetX, lineSizes, scrollPos) :
                 p \in Values(scrollPos, width, zoomUnitOf(scale))
                         \X (0..(scale.segments - 1)) }
    IN  { m \in all : ~markSkipped(m.pos, width) }

\* draw(context, scrollPos, width, height) of a render whose closure holds
\* scale and offsetX.  It clears the whole surface and paints the labels, then
\* the marks, so what the surface shows afterwards is what this one call
\* painted: the surface is kept as the call that painted it, and Labels and
\* Marks give what it shows.
Blank == [drawn |-> FALSE]

draw(scale, offsetX, lineSizes, scrollPos, width, height) ==
    [drawn |-> TRUE,
     scrollPos |-> scrollPos, width |-> width, height |-> height,
     scale |-> scale, offsetX |-> offsetX, lineSizes |-> lineSizes]

Labels(surface) ==
    IF surface.drawn
    THEN drawLabels(surface.scale, surface.offsetX, surface.scrollPos, surface.width)
    ELSE {}

Marks(surface) ==
    IF surface.drawn
    THEN drawMarks(surface.scale, surface.offsetX, surface.lineSizes,
                   surface.scrollPos, surface.width)
    ELSE {}

\* ----------------------------------------------------------------- state
VARIABLES
    props,      \* what the parent and the store hand the component:
                \* scrollLeft, scale, onClick, offsetX, height
    layout,     \* the page: left (getBoundingClientRect().left of the canvas),
                \* offsetWidth (of the canvas's offsetParent), contextAvailable
    state,      \* useState cells: canvasContext, canvasSize, isDragging
    rendered,   \* the snapshot of props and state the last render closed over
    canvas,     \* the canvas element: ref (canvasRef.current), width, height,
                \* surface
    fiber,      \* React's bookkeeping: phase, pending (passive effects not
                \* yet run), dragHandlers (made by the last run of the
                \* isDragging effect, the ones its cleanup removes)
    document,   \* mousemove and mouseup listeners registered on the document
    last        \* the last event handled: what it was, what it invoked

vars == <<props, layout, state, rendered, canvas, fiber, document, last>>

NoHandlers == [id |-> -1]

\* All of it as one value w, with the scratch fields of a task: dirty (a
\* state update is waiting for a render), invoked (the onClick calls made),
\* resized (how many times resize assigned the canvas's size).
World ==
    [props |-> props, layout |-> layout, state |-> state, rendered |-> rendered,
     canvas |-> canvas, fiber |-> fiber, document |-> document,
     dirty |-> FALSE, invoked |-> <<>>, resized |-> 0]

\* The closure of a render: every const of the component body.
Snapshot(w) ==
    [scrollPos |-> w.props.scrollLeft,
     scale |-> w.props.scale,
     onClick |-> w.props.onClick,
     offsetX |-> w.props.offsetX,
     lineSizes |-> [long |-> w.props.longLineSize, short |-> w.props.shortLineSize],
     canvasContext |-> w.state.canvasContext,
     canvasSize |-> w.state.canvasSize,
     isDragging |-> w.state.isDragging]

\* -------------------------------------------------------------- setters
\* useState setters: an update with a value Object.is-equal to the current
\* one bails out; an object literal is never equal to the previous one.
setCanvasContext(w, context) ==
    IF w.state.canvasContext = context THEN w
    ELSE [w EXCEPT !.state.canvasContext = context, !.dirty = TRUE]

setCanvasSize(w, size) ==
    [w EXCEPT !.state.canvasSize = size, !.dirty = TRUE]

setIsDragging(w, value) ==
    IF w.state.isDragging = value THEN w
    ELSE [w EXCEPT !.state.isDragging = value, !.dirty = TRUE]

\* ------------------------------------------------------ resize (145-161)
\* Variant: the canvas is sized and the size stored, but draw is not called.
resizeWithoutDraw(w, cl, canvasEl, context, scrollPos) ==
    IF canvasEl = null \/ context = null THEN w
    ELSE LET width == w.layout.offsetWidth
             height == cl.canvasSize.height
             sized == [w EXCEPT !.canvas.width = width,
                                !.canvas.height = height,
                                !.canvas.surface = Blank,
                                !.resized = @ + 1]
         IN  setCanvasSize(sized, [width |-> width, height |-> height])

resize(w, cl, canvasEl, context, scrollPos) ==
    IF canvasEl = null \/ context = null THEN w
    ELSE LET width == w.layout.offsetWidth
             height == cl.canvasSize.height
             sized == [w EXCEPT !.canvas.width = width,
                                !.canvas.height = height,
                                !.canvas.surface = Blank,
                                !.resized = @ + 1]
             painted == [sized EXCEPT !.canvas.surface =
                            draw(cl.scale, cl.offsetX, cl.lineSizes, scrollPos, width, height)]
         IN  setCanvasSize(painted, [width |-> width, height |-> height])

\* ------------------------------------------- handleTimelineClick (248-267)
timelineStart == TIMELINE_OFFSET_X + TIMELINE_OFFSET_CANVAS_LEFT

relativePosition(clickX, left) == clickX - left - timelineStart

\* The pointer positions tried: from one pixel left of the timeline origin.
ClientXs == {CanvasLeft + timelineStart + r : r \in (-1)..MaxRel}

\* Variant: no test of the relative position before the call.
handleTimelineClickUnchecked(w, cl, clickX) ==
    IF w.canvas.ref = null \/ cl.onClick = null THEN w
    ELSE [w EXCEPT !.invoked =
             Append(@, [callback |-> cl.onClick,
                        units |-> relativePosition(clickX, w.layout.left)
                                    + cl.scrollPos])]

handleTimelineClick(w, cl, clickX) ==
    IF w.canvas.ref = null \/ cl.onClick = null THEN w
    ELSE LET rel == relativePosition(clickX, w.layout.left)
         IN  IF rel >= 0
             THEN [w EXCEPT !.invoked =
                      Append(@, [callback |-> cl.onClick,
                                 units |-> rel + cl.scrollPos])]
             ELSE w

\* handleMouseDown of the render on screen.
handleMouseDown(w, clientX) ==
    handleTimelineClick(setIsDragging(w, TRUE), w.rendered, clientX)

\* The two handlers the isDragging effect makes; h is the closure they keep.
handleMouseMove(w, h, clientX) ==
    IF ~h.isDragging THEN w ELSE handleTimelineClick(w, h, clientX)

handleMouseUp(w, h) == setIsDragging(w, FALSE)


\* ------------------------------------------------------------ the effects
\* useEffect(.., []) of lines 130-137.
mountEffect(w, cl) ==
    LET canvasEl == w.canvas.ref
        context == IF w.layout.contextAvailable THEN "context2d" ELSE null
    IN  IF canvasEl # null
        THEN resize(setCanvasContext(w, context), cl, canvasEl, context, cl.scrollPos)
        ELSE w

\* useEffect(.., [canvasContext, scrollPos, scale]) of lines 139-143.
resizeEffect(w, cl) ==
    IF cl.canvasContext # null
    THEN resize(w, cl, w.canvas.ref, cl.canvasContext, cl.scrollPos)
    ELSE w

\* useEffect(.., [isDragging]) of lines 275-296: its body, then its cleanup.
FreshId(w) ==
    CHOOSE n \in 0..(Cardinality(w.document.mousemove)
                     + Cardinality(w.document.mouseup)) :
        \A h \in w.document.mousemove \cup w.document.mouseup : h.id # n

\* Variant: only the mousemove listener is added.
addMoveListenerOnly(w, h) ==
    [w EXCEPT !.document.mousemove = @ \cup {h}]

addListeners(w, h) ==
    [w EXCEPT !.document.mousemove = @ \cup {h},
              !.document.mouseup = @ \cup {h}]

dragEffect(w, cl) ==
    LET h == [id |-> FreshId(w),
              isDragging |-> cl.isDragging,
              onClick |-> cl.onClick,
              scrollPos |-> cl.scrollPos]
        made == [w EXCEPT !.fiber.dragHandlers = h]
    IN  IF cl.isDragging THEN addListeners(made, h) ELSE made

\* Variant: the effect has no cleanup.
dragCleanupNothing(w) == w

\* Variant: the cleanup removes the mousemove listener only.
dragCleanupMoveOnly(w) ==
    [w EXCEPT !.document.mousemove = @ \ {w.fiber.dragHandlers}]

dragCleanup(w) ==
    [w EXCEPT !.document.mousemove = @ \ {w.fiber.dragHandlers},
              !.document.mouseup = @ \ {w.fiber.dragHandlers}]

\* ------------------------------------------------------------------ React
\* A re-render: the component body runs on the current props and state, and
\* each effect whose dependencies changed is scheduled.
\* Variant: the stored canvas width is a dependency too.
resizeDepsWithWidth(cl) ==
    <<cl.canvasContext, cl.scrollPos, cl.scale, cl.canvasSize.width>>

resizeDeps(cl) == <<cl.canvasContext, cl.scrollPos, cl.scale>>
dragDeps(cl) == <<cl.isDragging>>

Render(w) ==
    LET cl == Snapshot(w)
        due == (IF resizeDeps(cl) # resizeDeps(w.rendered) THEN {"resize"} ELSE {})
                 \cup (IF dragDeps(cl) # dragDeps(w.rendered) THEN {"drag"} ELSE {})
    IN  [w EXCEPT !.rendered = cl, !.fiber.pending = @ \cup due, !.dirty = FALSE]

\* The first render: the useState initialisers, the canvas element with its
\* height attribute (and the 300 pixels a canvas is wide by default), every
\* effect scheduled.
FirstRender(w) ==
    LET st == [canvasContext |-> null,
               canvasSize |-> [width |-> 0, height |-> w.props.height],
               isDragging |-> FALSE]
        w1 == [w EXCEPT !.state = st]
    IN  [w1 EXCEPT !.rendered = Snapshot(w1),
                   !.canvas = [ref |-> "canvas", width |-> 300,
                               height |-> st.canvasSize.height, surface |-> Blank],
                   !.fiber.phase = "mounted",
                   !.fiber.pending = {"mount", "resize", "drag"}]

\* The passive effects that are due: the cleanups of the previous run, then
\* the bodies in the order the component declares them.
Flush(w) ==
    LET cl == w.rendered
        due == w.fiber.pending
        w1 == IF "drag" \in due /\ w.fiber.dragHandlers # NoHandlers
              THEN dragCleanup(w) ELSE w
        w2 == IF "mount" \in due THEN mountEffect(w1, cl) ELSE w1
        w3 == IF "resize" \in due THEN resizeEffect(w2, cl) ELSE w2
        w4 == IF "drag" \in due THEN dragEffect(w3, cl) ELSE w3
    IN  [w4 EXCEPT !.fiber.pending = {}]

\* A synchronous flush: effects, then the render their updates ask for,
\* until nothing is left.
RECURSIVE Settle(_)
Settle(w) ==
    IF w.fiber.pending # {} THEN Settle(Flush(w))
    ELSE IF w.dirty THEN Settle(Render(w))
    ELSE w

\* A render whose passive effects run at once (sync) or in a later task.
Commit(w, sync) == IF sync THEN Settle(Render(w)) ELSE Render(w)

\* Listeners are called in the order they were registered.
RECURSIVE DispatchMove(_, _, _)
DispatchMove(w, hs, clientX) ==
    IF hs = {} THEN w
    ELSE LET h == CHOOSE x \in hs : \A y \in hs : x.id <= y.id
         IN  DispatchMove(handleMouseMove(w, h, clientX), hs \ {h}, clientX)

RECURSIVE DispatchUp(_, _)
DispatchUp(w, hs) ==
    IF hs = {} THEN w
    ELSE LET h == CHOOSE x \in hs : \A y \in hs : x.id <= y.id
         IN  DispatchUp(handleMouseUp(w, h), hs \ {h})

\* Unmounting runs the cleanup of the isDragging effect, detaches the ref
\* and discards the component's cells and its canvas element.
Gone(w) ==
    [w EXCEPT !.state = [canvasContext |-> null,
                         canvasSize |-> [width |-> 0, height |-> 0],
                         isDragging |-> FALSE],
              !.rendered = [scrollPos |-> 0, scale |-> w.props.scale,
                            onClick |-> null, offsetX |-> 0,
                            lineSizes |-> w.rendered.lineSizes,
                            canvasContext |-> null,
                            canvasSize |-> [width |-> 0, height |-> 0],
                            isDragging |-> FALSE],
              !.canvas = [ref |-> null, width |-> 0, height |-> 0,
                          surface |-> Blank],
              !.fiber = [phase |-> "unmounted", pending |-> {},
                         dragHandlers |-> NoHandlers]]

\* Variant: the effect returns no cleanup, so unmounting removes nothing.
UnmountedWithoutCleanup(w) == Gone(w)

Unmounted(w) == Gone(dragCleanup(w))


\* ---------------------------------------------------------------- actions
Pointer == {"mousedown", "mousemove", "mouseup"}

\* What is kept of the event just handled: its kind and position, whether a
\* drag session was active when it arrived, the onClick calls it made and the
\* number of times it assigned the canvas's size.
Event(name, clientX, w) ==
    [event |-> name, clientX |-> clientX,
     wasDragging |-> name \in Pointer \cup {"unmount"} /\ state.isDragging,
     invoked |-> w.invoked, resized |-> w.resized]

Becomes(w, name, clientX) ==
    /\ props' = w.props
    /\ layout' = w.layout
    /\ state' = w.state
    /\ rendered' = w.rendered
    /\ canvas' = w.canvas
    /\ fiber' = w.fiber
    /\ document' = w.document
    /\ last' = Event(name, clientX, w)

Init ==
    /\ props \in [scrollLeft : 0..MaxScroll, scale : Scales,
                  onClick : Callbacks \cup {null}, offsetX : OffsetXs,
                  height : {DefaultHeight},
                  longLineSize : {longLineSize}, shortLineSize : {shortLineSize}]
    /\ layout \in [left : {CanvasLeft}, offsetWidth : Widths,
                   contextAvailable : BOOLEAN]
    /\ state = [canvasContext |-> null,
                canvasSize |-> [width |-> 0, height |-> props.height],
                isDragging |-> FALSE]
    /\ rendered = [scrollPos |-> props.scrollLeft, scale |-> props.scale,
                   onClick |-> props.onClick, offsetX |-> props.offsetX,
                   lineSizes |-> [long |-> props.longLineSize,
                                  short |-> props.shortLineSize],
                   canvasContext |-> null, canvasSize |-> state.canvasSize,
                   isDragging |-> FALSE]
    /\ canvas = [ref |-> null, width |-> 0, height |-> 0, surface |-> Blank]
    /\ fiber = [phase |-> "init", pending |-> {}, dragHandlers |-> NoHandlers]
    /\ document = [mousemove |-> {}, mouseup |-> {}]
    /\ last = [event |-> "none", clientX |-> 0, wasDragging |-> FALSE,
               invoked |-> <<>>, resized |-> 0]

Mounted == fiber.phase = "mounted"
Idle == Mounted /\ fiber.pending = {}

\* The component is mounted: first render and commit.
Mount ==
    /\ fiber.phase = "init"
    /\ \E sync \in BOOLEAN :
         LET w == FirstRender(World)
         IN  \E v \in {IF sync THEN Settle(w) ELSE w} : Becomes(v, "other", 0)

\* The scheduler runs the passive effects a render left pending.
FlushPassiveEffects ==
    /\ Mounted
    /\ fiber.pending # {}
    /\ \E sync \in BOOLEAN :
         LET w == Flush(World)
         IN  \E v \in {IF w.dirty THEN Commit(w, sync) ELSE w} :
                 Becomes(v, "other", 0)

\* The parent renders the component with another scrollLeft.
SetScrollLeft ==
    /\ Idle
    /\ \E v \in (0..MaxScroll) \ {props.scrollLeft}, sync \in BOOLEAN :
         \E w \in {Commit([World EXCEPT !.props.scrollLeft = v], sync)} :
             Becomes(w, "other", 0)

\* The store's scale changes.
SetScale ==
    /\ Idle
    /\ \E sc \in Scales \ {props.scale}, sync \in BOOLEAN :
         \E w \in {Commit([World EXCEPT !.props.scale = sc], sync)} :
             Becomes(w, "other", 0)

\* The parent passes another onClick (or none).
SetOnClick ==
    /\ Idle
    /\ \E cb \in (Callbacks \cup {null}) \ {props.onClick} :
         \E w \in {Commit([World EXCEPT !.props.onClick = cb], TRUE)} :
             Becomes(w, "other", 0)

\* The parent passes another height.
SetHeight ==
    /\ Idle
    /\ \E h \in Heights \ {props.height} :
         \E w \in {Commit([World EXCEPT !.props.height = h], TRUE)} :
             Becomes(w, "other", 0)

\* The container's width changes (window resize, panel drag).
ContainerResize ==
    /\ Mounted
    /\ \E width \in Widths \ {layout.offsetWidth} :
         Becomes([World EXCEPT !.layout.offsetWidth = width], "other", 0)

\* mousedown on the clickable overlay.
MouseDown ==
    /\ Mounted
    /\ \E clientX \in ClientXs :
         \E w \in {handleMouseDown(World, clientX)} :
         \E v \in {IF w.dirty THEN Settle(w) ELSE w} :
             Becomes(v, "mousedown", clientX)

\* mousemove anywhere in the document.
DocMouseMove ==
    /\ fiber.phase # "init"
    /\ \E clientX \in ClientXs :
         \E w \in {DispatchMove(World, document.mousemove, clientX)} :
         \E v \in {IF w.dirty THEN Settle(w) ELSE w} :
             Becomes(v, "mousemove", clientX)

\* mouseup anywhere in the document.
DocMouseUp ==
    /\ fiber.phase # "init"
    /\ \E w \in {DispatchUp(World, document.mouseup)} :
       \E v \in {IF w.dirty THEN Settle(w) ELSE w} :
           Becomes(v, "mouseup", 0)

\* The component is removed from the tree.
Unmount ==
    /\ Idle
    /\ \E w \in {Unmounted(World)} : Becomes(w, "unmount", 0)

Next ==
    \/ Mount
    \/ FlushPassiveEffects
    \/ SetScrollLeft
    \/ SetScale
    \/ SetOnClick
    \/ SetHeight
    \/ ContainerResize
    \/ MouseDown
    \/ DocMouseMove
    \/ DocMouseUp
    \/ Unmount

Spec == Init /\ [][Next]_vars


\* ------------------------------------------------------- draw on its own
\* draw as a function of its inputs: every scroll offset, width, scale and
\* left offset of the bounds, painted on a context that is ready.
\* The long tick lengths a parent configures: the default, or the same as
\* the short one.
LineSizes == {shortLineSize, longLineSize}

DrawScales == [zoom : 1..MaxZoom, unit : 1..MaxUnit, segments : 1..MaxSegments]

DrawInit ==
    /\ props \in [scrollLeft : 0..MaxDrawScroll, scale : DrawScales,
                  onClick : {null}, offsetX : 0..MaxOffsetX,
                  height : {DefaultHeight},
                  longLineSize : LineSizes, shortLineSize : {shortLineSize}]
    /\ layout \in [left : {CanvasLeft}, offsetWidth : 0..MaxDrawWidth,
                   contextAvailable : {TRUE}]
    /\ state = [canvasContext |-> "context2d",
                canvasSize |-> [width |-> layout.offsetWidth, height |-> props.height],
                isDragging |-> FALSE]
    /\ rendered = [scrollPos |-> props.scrollLeft, scale |-> props.scale,
                   onClick |-> props.onClick, offsetX |-> props.offsetX,
                   lineSizes |-> [long |-> props.longLineSize,
                                  short |-> props.shortLineSize],
                   canvasContext |-> state.canvasContext,
                   canvasSize |-> state.canvasSize,
                   isDragging |-> FALSE]
    /\ canvas = [ref |-> "canvas", width |-> layout.offsetWidth,
                 height |-> props.height, surface |-> Blank]
    /\ fiber = [phase |-> "mounted", pending |-> {}, dragHandlers |-> NoHandlers]
    /\ document = [mousemove |-> {}, mouseup |-> {}]
    /\ last = [event |-> "none", clientX |-> 0, wasDragging |-> FALSE,
               invoked |-> <<>>, resized |-> 0]

\* What is on the bitmap, for draw taken on its own: the labels and marks
\* painted and not cleared since.  clearRect(0, 0, width, height) removes
\* everything when the rectangle covers the canvas, and otherwise what lies
\* in [0, width).
NoInk == [labels |-> {}, marks |-> {}]

\* Variant: draw does not clear the surface first.
clearRectNothing(ink, width, height, canvasWidth, canvasHeight) == ink

clearRect(ink, width, height, canvasWidth, canvasHeight) ==
    IF width >= canvasWidth /\ height >= canvasHeight THEN NoInk
    ELSE [labels |-> {l \in ink.labels : RLeq(Whole(width), l.centre)},
          marks |-> {m \in ink.marks : RLeq(Whole(width), m.pos)}]

\* draw on a surface that holds ink: clearRect, the labels, the marks.
drawOn(surface, canvasWidth, canvasHeight, scale, offsetX, lineSizes, scrollPos, width, height) ==
    LET before == IF surface.drawn THEN surface.ink ELSE NoInk
        cleared == clearRect(before, width, height, canvasWidth, canvasHeight)
    IN  draw(scale, offsetX, lineSizes, scrollPos, width, height)
          @@ ("ink" :> [labels |-> cleared.labels
                                     \cup drawLabels(scale, offsetX, scrollPos, width),
                        marks |-> cleared.marks
                                    \cup drawMarks(scale, offsetX, lineSizes, scrollPos, width)])

\* draw(context, scrollPos, width, height) on the current inputs.
Paint ==
    /\ ~canvas.surface.drawn
    /\ canvas' = [canvas EXCEPT !.surface =
                     drawOn(canvas.surface, canvas.width, canvas.height,
                            rendered.scale, rendered.offsetX, rendered.lineSizes,
                            rendered.scrollPos,
                            canvas.width, canvas.height)]
    /\ last' = [last EXCEPT !.event = "draw"]
    /\ UNCHANGED <<props, layout, state, rendered, fiber, document>>

\* draw runs again on the painted surface, with the same scroll offset or
\* the next one (the first after the last).
Repaint ==
    /\ canvas.surface.drawn
    /\ \E v \in {props.scrollLeft, (props.scrollLeft + 1) % (MaxDrawScroll + 1)} :
         /\ props' = [props EXCEPT !.scrollLeft = v]
         /\ rendered' = [rendered EXCEPT !.scrollPos = v]
         /\ canvas' = [canvas EXCEPT !.surface =
                          drawOn(canvas.surface, canvas.width, canvas.height,
                                 rendered.scale, rendered.offsetX, rendered.lineSizes, v,
                                 canvas.width, canvas.height)]
         /\ last' = [last EXCEPT !.event =
                        IF v = props.scrollLeft THEN "same" ELSE "redraw"]
    /\ UNCHANGED <<layout, state, fiber, document>>

\* The container's width changes, to the next one (the first after the
\* last), and resize runs: the canvas is sized, which blanks it, and draw
\* paints it.
Reflow ==
    /\ canvas.surface.drawn
    /\ \E width \in {(layout.offsetWidth + 1) % (MaxDrawWidth + 1)} :
         /\ layout' = [layout EXCEPT !.offsetWidth = width]
         /\ state' = [state EXCEPT !.canvasSize.width = width]
         /\ rendered' = [rendered EXCEPT !.canvasSize.width = width]
         /\ canvas' = [canvas EXCEPT !.width = width,
                          !.surface = drawOn(Blank, width, canvas.height,
                                             rendered.scale, rendered.offsetX,
                                             rendered.lineSizes,
                                             rendered.scrollPos, width, canvas.height)]
         /\ last' = [last EXCEPT !.event = "resize"]
    /\ UNCHANGED <<props, fiber, document>>

DrawNext == Paint \/ Repaint \/ Reflow

DrawSpec == DrawInit /\ [][DrawNext]_vars

\* ------------------------------------------------------------ the claims
Units(invoked) == [k \in 1..Len(invoked) |-> invoked[k].units]

LastRel == relativePosition(last.clientX, layout.left)

NoListeners == document.mousemove = {} /\ document.mouseup = {}

\* C1: a press or a drag-move whose relativePosition (clientX - region.left -
\* leading offset) is negative invokes no callback, whatever the scroll offset
\* and whether or not a session is active.
C1_NegativeIgnored ==
    (last.event \in {"mousedown", "mousemove"} /\ LastRel < 0)
        => last.invoked = <<>>

\* A move during a session whose handler holds a callback, left of the origin.
C1_Witness ==
    /\ last.event = "mousemove"
    /\ last.wasDragging
    /\ LastRel < 0
    /\ \E h \in document.mousemove : h.isDragging /\ h.onClick # null

\* C2 (as stated): with a callback supplied, a press and every move of an
\* active session invoke it exactly once with clientX - region.left - offset +
\* scrollOffset when the relative position is non-negative, and a move outside
\* a session (after the release, before the next press) invokes nothing.
C2_DragSemantics ==
    /\ ( /\ \/ last.event = "mousedown"
            \/ last.event = "mousemove" /\ last.wasDragging
         /\ props.onClick # null )
         => Units(last.invoked) =
              IF LastRel >= 0 THEN <<LastRel + props.scrollLeft>> ELSE <<>>
    /\ (last.event = "mousemove" /\ ~last.wasDragging) => last.invoked = <<>>

\* C3 (as stated): every invocation goes to the callback that is current and
\* passes relativePosition plus the scroll offset that is current, also when
\* either changed while the session was active.
C3_CurrentScrollAndCallback ==
    last.event \in {"mousedown", "mousemove"}
        => \A k \in 1..Len(last.invoked) :
             last.invoked[k] = [callback |-> props.onClick,
                                units |-> LastRel + props.scrollLeft]

\* C4: a release delivered while a session is active ends it: after the
\* mouseup the state is Idle again.
C4_ReleaseEndsSession ==
    (last.event = "mouseup" /\ last.wasDragging)
        => (~state.isDragging /\ ~rendered.isDragging)

C4_Witness ==
    /\ last.event = "mouseup"
    /\ last.wasDragging
    /\ ~state.isDragging

\* C5: a move or release listener of the ruler is registered on the document
\* only while a session is active, and none is left once a release has been
\* handled.
C5_ListenerHygiene ==
    /\ ~NoListeners => (Mounted /\ state.isDragging)
    /\ last.event = "mouseup" => NoListeners

\* A release that found the listeners of a session and left none.
C5_Witness ==
    /\ last.event = "mouseup"
    /\ last.wasDragging
    /\ NoListeners
    /\ fiber.dragHandlers # NoHandlers

\* C6: once the component is unmounted, in whatever state, no listener of it
\* is registered, and no later move or release invokes the callback or
\* changes the component.
C6_Teardown ==
    /\ [](fiber.phase = "unmounted" => NoListeners)
    /\ [][fiber.phase = "unmounted" =>
            /\ last'.invoked = <<>>
            /\ UNCHANGED <<state, rendered, canvas, fiber, document>>]_vars

\* Unmounted in the middle of a session.
C6_Witness ==
    /\ last.event = "unmount"
    /\ last.wasDragging
    /\ fiber.phase = "unmounted"
    /\ NoListeners


\* The surface shows the current inputs on a canvas as wide as its container:
\* a canvas x is then a screen x minus region.left.
SurfaceCurrent ==
    /\ fiber.pending = {}
    /\ canvas.surface.drawn
    /\ canvas.surface.scrollPos = props.scrollLeft
    /\ canvas.surface.scale = props.scale
    /\ canvas.surface.offsetX = props.offsetX
    /\ canvas.surface.width = layout.offsetWidth

\* C7 (as stated): a press at the screen x of the drawn major mark of index i
\* (region.left plus its canvas x) invokes the callback with i * zoomUnit.
C7_RoundTrip ==
    (last.event = "mousedown" /\ props.onClick # null /\ SurfaceCurrent)
        => \A m \in Marks(canvas.surface) :
             (m.j = 0 /\ m.pos = Whole(last.clientX - layout.left))
                 => Units(last.invoked) = <<m.value * zoomUnitOf(props.scale)>>

InSlack(pos, width, zoomUnit) ==
    RLeq(Whole(-zoomUnit), pos) /\ RLeq(pos, Whole(width + zoomUnit))

\* C8 (as stated): every mark and every label draw emits has its position,
\* left margin included, within [-zoomUnit, width + zoomUnit], and none has a
\* negative index.
C8_AllWithinSlack ==
    LET s == canvas.surface
    IN  s.drawn =>
          /\ \A m \in Marks(s) :
               m.value >= 0 /\ InSlack(m.pos, s.width, zoomUnitOf(s.scale))
          /\ \A l \in Labels(s) :
               l.value >= 0 /\ InSlack(l.centre, s.width, zoomUnitOf(s.scale))

\* C8 (amended): every mark has its position, left margin included, within
\* [-zoomUnit, width + zoomUnit]; every label has its position before the left
\* margin is added within it; none has a negative index.
C8_WithinSlack ==
    LET s == canvas.surface
    IN  s.drawn =>
          /\ \A m \in Marks(s) :
               m.value >= 0 /\ InSlack(m.pos, s.width, zoomUnitOf(s.scale))
          /\ \A l \in Labels(s) :
               l.value >= 0 /\ InSlack(l.startPos, s.width, zoomUnitOf(s.scale))

\* A painted surface with marks, and a label whose centre is past the slack.
C8_Witness ==
    /\ canvas.surface.drawn
    /\ Marks(canvas.surface) # {}
    /\ \E l \in Labels(canvas.surface) :
         ~InSlack(l.centre, canvas.surface.width, zoomUnitOf(canvas.surface.scale))

\* C9 (as stated): with the context ready and no effect pending, the surface
\* has the container's current width and the configured height, and is drawn.
C9_SurfaceTracksContainer ==
    (Mounted /\ fiber.pending = {} /\ state.canvasContext # null)
        => /\ canvas.width = layout.offsetWidth
           /\ canvas.height = props.height
           /\ canvas.surface.drawn

\* C10: a step that resized the surface ends with the surface drawn, for the
\* size just assigned and the scroll offset and scale current in that step;
\* the surface is blank only while no resize has happened.
C10_ResizeThenDraw ==
    /\ last.resized > 0 =>
         /\ canvas.surface.drawn
         /\ canvas.surface.width = canvas.width
         /\ canvas.surface.height = canvas.height
         /\ canvas.surface.scrollPos = props.scrollLeft
         /\ canvas.surface.scale = props.scale
    /\ (Mounted /\ ~canvas.surface.drawn) => state.canvasContext = null

\* A resize made by the effect after the scroll offset changed.
C10_Witness ==
    /\ last.resized > 0
    /\ last.event = "other"
    /\ props.scrollLeft # 0
    /\ canvas.surface.drawn
    /\ canvas.surface.scrollPos = props.scrollLeft

\* What draw paints for the inputs the surface records.
Painted(surface) == [labels |-> Labels(surface), marks |-> Marks(surface)]

\* C11: after any sequence of draws and resizes, what is on the surface is
\* what the last draw paints for its own inputs: nothing of an earlier draw
\* remains, and a draw repeated with the same inputs leaves the same output.
C11_DrawHistoryFree ==
    canvas.surface.drawn => canvas.surface.ink = Painted(canvas.surface)

\* A draw repeated with the same inputs, on a surface that shows marks.
C11_Witness ==
    /\ canvas.surface.drawn
    /\ last.event = "same"
    /\ canvas.surface.ink.marks # {}
    /\ canvas.surface.ink.labels # {}

\* C12 (as stated): once the drawing context is ready, a change of the
\* scroll offset or of the scale is drawn before the next event is handled:
\* when a pointer event has been handled, the surface shows the current scroll
\* offset and scale.
C12_RedrawBeforeNextEvent ==
    (Mounted /\ state.canvasContext # null /\ last.event \in Pointer)
        => /\ canvas.surface.drawn
           /\ canvas.surface.scrollPos = props.scrollLeft
           /\ canvas.surface.scale = props.scale

\* C13 (as stated): for every segments and every configured tick length,
\* each index of the range contributes the sub-ticks j = 0..segments-1 at
\* start + (j/segments)*zoomUnit; a sub-tick is on the surface exactly when
\* its position is in [0, width); sub-tick 0 has the long length and the
\* prominent colour, every other one the short length and the muted colour.
C13_MajorMinor ==
    canvas.surface.drawn =>
        LET sf == canvas.surface
            zoomUnit == zoomUnitOf(sf.scale)
        IN  /\ \A v \in Values(sf.scrollPos, sf.width, zoomUnit) :
               \A j \in 0..(sf.scale.segments - 1) :
                  LET pos == RAdd(Whole(v * zoomUnit - sf.scrollPos + sf.offsetX),
                                  Rat(j * zoomUnit, sf.scale.segments))
                  IN  (\E m \in Marks(sf) : m.value = v /\ m.j = j /\ m.pos = pos)
                          <=> (RLeq(Whole(0), pos) /\ RLess(pos, Whole(sf.width)))
            /\ \A m \in Marks(sf) :
                  /\ m.y1 = origin
                  /\ m.j = 0 => /\ m.y2 = origin + sf.lineSizes.long
                                /\ m.colour = "#d4d4d8"
                  /\ m.j > 0 => /\ m.y2 = origin + sf.lineSizes.short
                                /\ m.colour = "#a1a1aa"

\* C14: every label on the surface is centred on the x position the tick
\* loop computes for the major mark of the same index, and on that mark when
\* it is drawn.
C14_LabelOnMajorMark ==
    canvas.surface.drawn =>
        LET sf == canvas.surface
            majors == {m \in Marks(sf) : m.j = 0}
        IN  \A l \in Labels(sf) :
               /\ l.centre = markPos(l.value, 0, sf.scale, sf.offsetX, sf.scrollPos)
               /\ \A m \in majors : m.value = l.value => m.pos = l.centre

\* A scrolled, zoomed ruler showing a label together with its major mark.
C14_Witness ==
    /\ canvas.surface.drawn
    /\ canvas.surface.scale.zoom > 1
    /\ canvas.surface.scrollPos > 0
    /\ \E l \in Labels(canvas.surface), m \in Marks(canvas.surface) :
          m.value = l.value /\ m.j = 0 /\ l.value > 0

\* C15 (as stated): drawn with a viewport width of zero, the index range is
\* empty and the surface receives neither a label nor a mark.
C15_ZeroWidthEmitsNothing ==
    (canvas.surface.drawn /\ canvas.surface.width = 0)
        => LET sf == canvas.surface
           IN  /\ Values(sf.scrollPos, sf.width, zoomUnitOf(sf.scale)) = {}
               /\ Labels(sf) = {}
               /\ Marks(sf) = {}

\* C15 (amended): drawn with a viewport width of zero, no mark is painted;
\* the index range is not empty, and fillText is called for the label of
\* each of its indices.
C15_ZeroWidthNoMark ==
    (canvas.surface.drawn /\ canvas.surface.width = 0)
        => LET sf == canvas.surface
               range == Values(sf.scrollPos, sf.width, zoomUnitOf(sf.scale))
           IN  /\ Marks(sf) = {}
               /\ range # {}
               /\ {l.value : l \in Labels(sf)} = range

\* A scrolled ruler drawn with a viewport width of zero.
C15_Witness ==
    /\ canvas.surface.drawn
    /\ canvas.surface.width = 0
    /\ canvas.surface.scrollPos > 0
    /\ Labels(canvas.surface) # {}

\* C16 (as stated): a press or a move handled while no callback is supplied
\* or the canvas element is not available invokes nothing; while the drawing
\* context is missing, no event sizes or paints the canvas, which stays as
\* the first render left it.
C16_DefensiveNoOps ==
    /\ (last.event \in {"mousedown", "mousemove"}
          /\ (props.onClick = null \/ canvas.ref = null))
          => last.invoked = <<>>
    /\ (Mounted /\ state.canvasContext = null)
          => /\ last.resized = 0
             /\ canvas.surface = Blank
             /\ canvas.width = 300

\* C17 (as stated): every sub-tick of a non-negative index whose position
\* index*zoomUnit + (j/segments)*zoomUnit - scrollPos + offsetX lies in
\* [0, width) is on the surface after draw.
C17_VisibleRangeComplete ==
    canvas.surface.drawn =>
        LET sf == canvas.surface
            zoomUnit == zoomUnitOf(sf.scale)
        IN  \A v \in 0..(maxRangeOf(sf.scrollPos, sf.width, zoomUnit) + 1) :
            \A j \in 0..(sf.scale.segments - 1) :
               LET pos == RAdd(Whole(v * zoomUnit - sf.scrollPos + sf.offsetX),
                               Rat(j * zoomUnit, sf.scale.segments))
               IN  (RLeq(Whole(0), pos) /\ RLess(pos, Whole(sf.width)))
                       => \E m \in Marks(sf) : m.value = v /\ m.j = j /\ m.pos = pos

\* C18: whatever presses, moves, releases, re-renders and unmounts have
\* happened, the document holds at most one move listener and at most one
\* release listener of the ruler, and a move makes at most one onClick call.
C18_AtMostOneListener ==
    /\ Cardinality(document.mousemove) <= 1
    /\ Cardinality(document.mouseup) <= 1
    /\ last.event = "mousemove" => Len(last.invoked) <= 1

\* A second press during an active session, with the session's listeners
\* still the only ones.
C18_Witness ==
    /\ last.event = "mousedown"
    /\ last.wasDragging
    /\ Cardinality(document.mousemove) = 1
    /\ Cardinality(document.mouseup) = 1

\* C19 (as stated): a press left of the timeline origin invokes nothing and
\* starts a session all the same, and a move of a session at a non-negative
\* relative position invokes the callback supplied, once.
C19_NegativePressStartsSession ==
    /\ (last.event = "mousedown" /\ LastRel < 0)
          => (last.invoked = <<>> /\ state.isDragging)
    /\ (last.event = "mousemove" /\ last.wasDragging /\ LastRel >= 0
          /\ props.onClick # null)
          => (Len(last.invoked) = 1 /\ last.invoked[1].callback = props.onClick)

\* C20: resize runs a bounded number of times and then nothing is pending.
\* No step runs it more than twice (the mount: once from the mount effect,
\* once when the context arrives in the closure); a step that changes the
\* scroll offset or the scale runs it at most once and schedules at most the
\* resize effect; and a run of the pending effects after the mount effect has
\* run, which stores a fresh canvasSize, schedules nothing again.
C20_RedrawQuiescence ==
    /\ [](last.resized <= 2)
    /\ [][(props'.scrollLeft # props.scrollLeft \/ props'.scale # props.scale)
            => /\ last'.resized <= 1
               /\ fiber'.pending \subseteq {"resize"}
               /\ last'.resized = 1 => fiber'.pending = {}]_vars
    /\ [][(/\ Mounted
           /\ fiber.pending # {}
           /\ "mount" \notin fiber.pending
           /\ last'.event = "other"
           /\ UNCHANGED <<props, layout>>)
            => /\ fiber'.pending = {}
               /\ last'.resized <= 1]_vars

\* A mount whose effects ran at once: two resizes, then nothing pending.
C20_Witness ==
    /\ Idle
    /\ last.resized = 2
    /\ canvas.surface.drawn
    /\ state.canvasSize.width = canvas.width

====
